---- MODULE Spec2Model ----
(***************************************************************************)
(* Model of the FFmpeg worker (src/index.js): an Express application with  *)
(* a health check, an API-key protected POST /create-video handler that    *)
(* acknowledges with 202 and then simulates four processing steps with a   *)
(* chain of nested setTimeout callbacks.                                   *)
(*                                                                         *)
(* Time is a discrete clock in whole seconds.  Node runs the handler and   *)
(* every timer callback to completion on one thread, so each is one atomic *)
(* action.  Timers of one duration fire in creation order; a timer fires   *)
(* in the second it falls due.                                             *)
(***************************************************************************)
EXTENDS Integers, Sequences, FiniteSets, TLC

VARIABLES now, requests, timers, log, nextSeq, API_SECRET_KEY, boots, health

vars == <<now, requests, timers, log, nextSeq, API_SECRET_KEY, boots, health>>

-----------------------------------------------------------------------------
(* Bounds of the model *)

MaxReq == 2          \* number of POST /create-video requests explored
MaxArrival == 3      \* last second at which a request may arrive
MaxBoots == 1        \* number of process crashes explored (SpecCrash only)

-----------------------------------------------------------------------------
(* Values *)

\* JavaScript's undefined: an absent header, an unset environment variable,
\* a body without sutra_id.
Undefined == "<undefined>"

\* Values process.env.API_SECRET_KEY may have when the module is loaded.
KeyValues == {Undefined, "", "s3cret"}

\* Values req.headers['x-api-key'] may have.
HeaderValues == {Undefined, "", "s3cret", "wrong"}

\* Values req.body.sutra_id may have.
SutraIds == {Undefined, "abc123"}

\* JavaScript truthiness of a string-or-undefined value: !v is true for
\* undefined and for the empty string.
Falsy(v) == v = Undefined \/ v = ""

\* Number of nested setTimeout callbacks (Step 1 .. Step 4).
StepCount == 4

\* Delay of the setTimeout whose callback prints "Step k", in seconds
\* (1000, 3000, 2000 and 1000 ms in the source).
Delay_Swapped(k) == CASE k = 1 -> 1
                      [] k = 2 -> 2
                      [] k = 3 -> 3
                      [] k = 4 -> 1
Delay(k) == CASE k = 1 -> 1
              [] k = 2 -> 3
              [] k = 3 -> 2
              [] k = 4 -> 1

\* Configuration the specification document names; the handler reads none.
maxConcurrency == 1
queueCapacity == 1

-----------------------------------------------------------------------------
(* Events observable from outside: HTTP responses and console lines *)

Response(i, code) == [e |-> "response", req |-> i, v |-> code]
Starting(i) == [e |-> "starting", req |-> i, v |-> 0]
StepEvent(i, k) == [e |-> "step", req |-> i, v |-> k]
Complete(i) == [e |-> "complete", req |-> i, v |-> 0]

-----------------------------------------------------------------------------
(* POST /create-video *)

\* if (!apiKey || apiKey !== API_SECRET_KEY)
Unauthorized_NoFalsyCheck(apiKey, secret) == apiKey # secret
Unauthorized(apiKey, secret) == Falsy(apiKey) \/ apiKey # secret

\* What the handler emits once the key check has passed: the 202 response,
\* then the "Starting video assembly" line.
AdmitEvents_NoResponse(i) == <<Starting(i)>>
AdmitEvents(i) == <<Response(i, 202), Starting(i)>>

\* setTimeout(callback printing Step k for request i, Delay(k)) called at
\* time `at` as the seq-th timer created.
Timer(i, k, at, seq) ==
    [req |-> i, step |-> k, delay |-> Delay(k), due |-> at + Delay(k), seq |-> seq]

\* The step whose callback is nested inside the callback of step k.
NextStep_Skip(k) == IF k = 2 THEN 4 ELSE k + 1
NextStep(k) == k + 1

\* Timers created by the callback of step k of request i: the nested
\* setTimeout, none in the innermost callback.
ScheduleNext_Always(i, k, at, seq) ==
    {Timer(i, IF k < StepCount THEN NextStep(k) ELSE 1, at, seq)}
ScheduleNext_Twice(i, k, at, seq) ==
    IF k < StepCount
    THEN {Timer(i, NextStep(k), at, seq), Timer(i, NextStep(k), at, seq + 1)}
    ELSE {}
ScheduleNext_DropLast(i, k, at, seq) ==
    IF k < StepCount - 1 THEN {Timer(i, NextStep(k), at, seq)} ELSE {}
ScheduleNext(i, k, at, seq) ==
    IF k < StepCount THEN {Timer(i, NextStep(k), at, seq)} ELSE {}

\* The job is processed under the sutra_id destructured from the body; the
\* handler generates nothing when the body has none.
JobId(sutra_id) == sutra_id

Post_CheckLate(sutra_id, apiKey) ==
    /\ Len(requests) < MaxReq
    /\ now <= MaxArrival
    /\ LET i == Len(requests) + 1
           r == [sutra_id |-> sutra_id, apiKey |-> apiKey, at |-> now,
                 boot |-> boots, admitted |-> FALSE, step |-> 0,
                 stepAt |-> <<>>, complete |-> FALSE]
       IN /\ timers' = timers \cup {Timer(i, 1, now, nextSeq)}
          /\ nextSeq' = nextSeq + 1
          /\ IF Unauthorized(apiKey, API_SECRET_KEY)
             THEN /\ requests' = Append(requests, r)
                  /\ log' = Append(log, Response(i, 401))
             ELSE /\ requests' = Append(requests, [r EXCEPT !.admitted = TRUE])
                  /\ log' = log \o AdmitEvents(i)
    /\ UNCHANGED <<now, API_SECRET_KEY, boots, health>>

Post(sutra_id, apiKey) ==
    /\ Len(requests) < MaxReq
    /\ now <= MaxArrival
    /\ LET i == Len(requests) + 1
           r == [sutra_id |-> sutra_id, apiKey |-> apiKey, at |-> now,
                 boot |-> boots, admitted |-> FALSE, step |-> 0,
                 stepAt |-> <<>>, complete |-> FALSE]
       IN IF Unauthorized(apiKey, API_SECRET_KEY)
          THEN /\ requests' = Append(requests, r)
               /\ log' = Append(log, Response(i, 401))
               /\ UNCHANGED <<timers, nextSeq>>
          ELSE /\ requests' = Append(requests, [r EXCEPT !.admitted = TRUE])
               /\ log' = log \o AdmitEvents(i)
               /\ timers' = timers \cup {Timer(i, 1, now, nextSeq)}
               /\ nextSeq' = nextSeq + 1
    /\ UNCHANGED <<now, API_SECRET_KEY, boots, health>>

-----------------------------------------------------------------------------
(* GET / *)

\* No health check has been answered yet.
NoResponse == [status |-> 0, body |-> "<none>"]

\* res.status(200).json({status: 'success', message: ...})
HealthResponse_Busy ==
    IF timers # {}
    THEN [status |-> 503, body |-> "busy"]
    ELSE [status |-> 200, body |-> "FFmpeg Worker is alive and ready!"]
HealthResponse ==
    [status |-> 200, body |-> "FFmpeg Worker is alive and ready!"]

\* The health check handler: answers and touches nothing else.  `health`
\* holds the latest answer sent.
Get ==
    /\ health' = HealthResponse
    /\ UNCHANGED <<now, requests, timers, log, nextSeq, API_SECRET_KEY, boots>>

-----------------------------------------------------------------------------
(* Timers *)

\* A timer may run when it has fallen due and no timer of the same duration
\* created before it is still pending (Node keeps one list per duration, in
\* creation order).
CanFire_AnyDue(t) == t.due <= now
CanFire_NewestFirst(t) ==
    /\ t.due <= now
    /\ ~ \E u \in timers : u.delay = t.delay /\ u.seq > t.seq
CanFire(t) ==
    /\ t.due <= now
    /\ ~ \E u \in timers : u.delay = t.delay /\ u.seq < t.seq

\* The callback of step t.step of request t.req.
Fire(t) ==
    /\ t \in timers
    /\ CanFire(t)
    /\ LET i == t.req
           k == t.step
           new == ScheduleNext(i, k, now, nextSeq)
       IN /\ timers' = (timers \ {t}) \cup new
          /\ nextSeq' = nextSeq + Cardinality(new)
          /\ requests' = [requests EXCEPT ![i].step = k,
                                          ![i].stepAt = Append(@, now),
                                          ![i].complete = @ \/ (k = StepCount)]
          /\ log' = IF k = StepCount
                    THEN log \o <<StepEvent(i, k), Complete(i)>>
                    ELSE Append(log, StepEvent(i, k))
    /\ UNCHANGED <<now, API_SECRET_KEY, boots, health>>

FireSome == \E t \in timers : Fire(t)

\* One second passes; every timer due has run.
Tick ==
    /\ \A t \in timers : t.due > now
    /\ timers # {} \/ (now < MaxArrival /\ Len(requests) < MaxReq)
    /\ now' = now + 1
    /\ UNCHANGED <<requests, timers, log, nextSeq, API_SECRET_KEY, boots, health>>

\* The process dies and is started again: pending timers and their closures
\* are gone, the module is evaluated afresh and app.listen runs.  Nothing is
\* read back, because nothing was stored.
Crash ==
    /\ boots < MaxBoots
    /\ timers # {}
    /\ timers' = {}
    /\ boots' = boots + 1
    /\ UNCHANGED <<now, requests, log, nextSeq, API_SECRET_KEY, health>>

-----------------------------------------------------------------------------
(* Specifications *)

Init ==
    /\ now = 0
    /\ requests = <<>>
    /\ timers = {}
    /\ log = <<>>
    /\ nextSeq = 1
    /\ API_SECRET_KEY \in KeyValues
    /\ boots = 0
    /\ health = NoResponse

PostSome == \E id \in SutraIds, h \in HeaderValues : Post(id, h)

Next == PostSome \/ FireSome \/ Tick \/ Get

Spec == Init /\ [][Next]_vars

\* Timers that are due do fire and the clock advances.
FairSpec == Spec /\ WF_vars(FireSome) /\ WF_vars(Tick)

NextCrash == Next \/ Crash

SpecCrash == Init /\ [][NextCrash]_vars /\ WF_vars(FireSome) /\ WF_vars(Tick)

-----------------------------------------------------------------------------
(* Observations used by the properties *)

Reqs == 1..Len(requests)

Admitted(i) == requests[i].admitted

\* Admitted and not yet at "Process complete".
InFlight(i) == requests[i].admitted /\ ~requests[i].complete

\* Positions of an event in the log.
Positions(ev) == {p \in 1..Len(log) : log[p] = ev}

IsResponseOf(i, ev) == ev.e = "response" /\ ev.req = i
IsStepOf(i, ev) == ev.e = "step" /\ ev.req = i

\* Status codes sent to request i, in order.
RECURSIVE CodesOf(_, _)
CodesOf(i, l) ==
    IF l = <<>> THEN <<>>
    ELSE (IF IsResponseOf(i, Head(l)) THEN <<Head(l).v>> ELSE <<>>)
         \o CodesOf(i, Tail(l))

\* Step numbers printed for request i, in order.
RECURSIVE StepsOf(_, _)
StepsOf(i, l) ==
    IF l = <<>> THEN <<>>
    ELSE (IF IsStepOf(i, Head(l)) THEN <<Head(l).v>> ELSE <<>>)
         \o StepsOf(i, Tail(l))

-----------------------------------------------------------------------------
(* Properties *)

C2_AckBeforeStep1 ==
    \A i \in Reqs :
        Admitted(i) =>
            /\ Positions(Response(i, 202)) # {}
            /\ \A p \in Positions(StepEvent(i, 1)) :
                   \E q \in Positions(Response(i, 202)) : q < p

C2_Witness ==
    \E i \in Reqs : Admitted(i) /\ Positions(StepEvent(i, 1)) # {}

\* C3: the steps of an admitted request run in the order 1, 2, 3, 4
\* (download, transcode, upload, finalize), each at most once, and a
\* completed request has run exactly these four.
C3_StepOrder ==
    \A i \in Reqs :
        LET steps == StepsOf(i, log)
        IN /\ Len(steps) <= StepCount
           /\ \A n \in 1..Len(steps) : steps[n] = n
           /\ requests[i].complete => steps = <<1, 2, 3, 4>>
           /\ ~Admitted(i) => steps = <<>>

C3_Witness ==
    \E i \in Reqs : requests[i].complete /\ StepsOf(i, log) = <<1, 2, 3, 4>>

\* C4: under fair firing of timers every admitted request eventually reaches
\* "Process complete", and reaches it at most once, whatever other requests
\* arrive or are in flight.
C4_Terminates ==
    /\ [](\A i \in Reqs : Cardinality(Positions(Complete(i))) <= 1)
    /\ \A i \in 1..MaxReq :
          (i \in Reqs /\ Admitted(i)) ~> (i \in Reqs /\ requests[i].complete)

C4_Witness ==
    \E i, j \in Reqs :
        /\ i # j
        /\ requests[i].complete /\ Cardinality(Positions(Complete(i))) = 1
        /\ requests[j].complete

\* C5: at most one in-flight job carries a given sutra_id, also when the same
\* sutra_id is submitted again while the first submission is in progress.
C5_UniqueActiveId ==
    \A i, j \in Reqs :
        (i # j /\ InFlight(i) /\ InFlight(j))
            => requests[i].sutra_id # requests[j].sutra_id

\* C6: the number of jobs in flight never exceeds maxConcurrency.
C6_BoundedConcurrency ==
    Cardinality({i \in Reqs : InFlight(i)}) <= maxConcurrency

\* C7: a submission arriving while the number of accepted, not yet started
\* jobs is at the queue capacity is rejected: it gets no 202, no job is
\* created and no existing job changes.
NotStarted == {i \in Reqs : Admitted(i) /\ requests[i].step = 0}

C7_QueueFullRejected ==
    [][(Len(requests') = Len(requests) + 1 /\ Cardinality(NotStarted) >= queueCapacity)
          => /\ ~requests'[Len(requests')].admitted
             /\ timers' = timers]_vars

\* C8: jobs start in submission order: when a later admitted request has
\* printed Step 1, every request admitted before it has printed Step 1
\* earlier.
C8_StartOrder ==
    \A i, j \in Reqs :
        (i < j /\ Admitted(i) /\ Admitted(j)) =>
            \A p \in Positions(StepEvent(j, 1)) :
                \E q \in Positions(StepEvent(i, 1)) : q < p

C8_Witness ==
    \E i, j \in Reqs :
        /\ i < j /\ Admitted(i) /\ Admitted(j)
        /\ requests[i].at = requests[j].at
        /\ Positions(StepEvent(j, 1)) # {}

\* C9: once "Process complete" has been printed for a request, no timer is
\* pending for it and no step line of it follows.
C9_TerminalIsFinal ==
    \A i \in Reqs :
        requests[i].complete =>
            /\ ~ \E t \in timers : t.req = i
            /\ \A c \in Positions(Complete(i)) :
                   \A p \in 1..Len(log) : IsStepOf(i, log[p]) => p < c

C9_Witness ==
    \E i, j \in Reqs :
        /\ requests[i].complete /\ InFlight(j)
        /\ log[Len(log)].req = j /\ log[Len(log)].e = "step"

\* C10: a crash does not lose a job: after the restart every job that was not
\* terminal is resumed at the step after its last completed one.
C10_NoJobLost ==
    \A i \in Reqs :
        InFlight(i) =>
            \E t \in timers : t.req = i /\ t.step = requests[i].step + 1

\* C11: every admitted job has a defined identifier: the submitted sutra_id,
\* or a generated one when the body has none.
C11_DefinedId ==
    \A i \in Reqs :
        Admitted(i) =>
            /\ JobId(requests[i].sutra_id) # Undefined
            /\ requests[i].sutra_id # Undefined
                   => JobId(requests[i].sutra_id) = requests[i].sutra_id

\* C12: GET / answers 200 with the same static payload from every reachable
\* state, whatever jobs are in flight and whatever the configured key, and
\* serving it changes no job state.
C12_HealthStatic ==
    [][health' # health =>
          /\ health'.status = 200
          /\ health'.body = "FFmpeg Worker is alive and ready!"
          /\ UNCHANGED <<now, requests, timers, log, nextSeq, API_SECRET_KEY, boots>>]_vars

C12_Witness ==
    /\ health.status = 200
    /\ \E i, j \in Reqs : InFlight(i) /\ requests[i].step = 2 /\ ~Admitted(j)

\* C13: a request answered 401 has no effect on background work: it creates
\* no timer, prints no "Starting" or step line, and leaves the timers and
\* the step positions of all other requests as they were.
C13_RejectedNoEffect ==
    [][(Len(requests') = Len(requests) + 1 /\ ~requests'[Len(requests')].admitted)
          => /\ timers' = timers
             /\ nextSeq' = nextSeq
             /\ log' = Append(log, Response(Len(requests'), 401))
             /\ \A i \in Reqs : requests'[i] = requests[i]]_vars

C13_Witness ==
    \E i, j \in Reqs :
        /\ i < j
        /\ InFlight(i) /\ requests[i].step = 0
        /\ ~Admitted(j) /\ CodesOf(j, log) = <<401>>
        /\ Cardinality(timers) = 1

TimersOf(i) == {t \in timers : t.req = i}

C15_OneTimerPerJob ==
    /\ \A i \in Reqs :
          Cardinality(TimersOf(i)) = IF InFlight(i) THEN 1 ELSE 0
    /\ Cardinality(timers) = Cardinality({i \in Reqs : InFlight(i)})

C15_Witness ==
    \E i, j \in Reqs :
        /\ InFlight(i) /\ requests[i].step = 3
        /\ requests[j].complete \/ ~Admitted(j)
        /\ i # j
        /\ Cardinality(timers) = 1

\* C16: jobs complete in admission order: for admitted requests A before B
\* every step k of A is printed before step k of B, and A's "Process
\* complete" before B's.
C16_CompletionOrder ==
    \A i, j \in Reqs :
        (i < j /\ Admitted(i) /\ Admitted(j)) =>
            /\ \A k \in 1..StepCount :
                  \A p \in Positions(StepEvent(j, k)) :
                      \E q \in Positions(StepEvent(i, k)) : q < p
            /\ \A p \in Positions(Complete(j)) :
                  \E q \in Positions(Complete(i)) : q < p

C16_Witness ==
    \E i, j \in Reqs :
        /\ i < j
        /\ requests[i].at = requests[j].at
        /\ requests[i].complete /\ requests[j].complete

\* C17: on the discrete clock the steps 1 to 4 of an admitted job are printed
\* 1, 4, 6 and 7 seconds after its admission, so it completes exactly 7
\* seconds after admission whatever else is in flight.
C17_FixedOffsets ==
    \A i \in Reqs :
        Admitted(i) =>
          LET Offsets == <<1, 4, 6, 7>> IN
            /\ Len(requests[i].stepAt) = requests[i].step
            /\ \A n \in 1..Len(requests[i].stepAt) :
                  requests[i].stepAt[n] = requests[i].at + Offsets[n]
            /\ requests[i].complete => requests[i].stepAt[StepCount] = requests[i].at + 7
            /\ now > requests[i].at + 7 => requests[i].complete

C17_Witness ==
    \E i, j \in Reqs :
        /\ i # j
        /\ requests[i].complete /\ requests[j].complete
        /\ requests[j].at = requests[i].at + 1
        /\ requests[i].stepAt = <<requests[i].at + 1, requests[i].at + 4,
                                  requests[i].at + 6, requests[i].at + 7>>

====
